---- MODULE Spec2Model ----
(***************************************************************************)
(* KnowledgeGraphManager (src/knowledge-graph.ts): a graph of entities and *)
(* relations kept in one line-delimited file.  Every operation loads the   *)
(* whole file, computes on the in-memory graph and, when it mutates,       *)
(* rewrites the whole file.                                                *)
(*                                                                         *)
(* A JavaScript object is a TLA+ record whose DOMAIN is the set of its own *)
(* keys; an object that lacks a required key fails the zod schema, an      *)
(* object with more keys than the schema passes it (z.object strips        *)
(* unknown keys from its OUTPUT, and accepts them in its input).           *)
(***************************************************************************)
EXTENDS Integers, Sequences, FiniteSets, TLC

VARIABLES
    file,     \* the backing file MEMORY_FILE_PATH: [exists, lines]
    last,     \* the call that completed last:
              \* [by, op, args, before, status, write, ret, graph, stale]
    written,  \* the graph handed to the last saveGraph that wrote the file
    pending,  \* per caller: its call between its load and its save, or the
              \* call it completed last
    calls     \* the number of calls started by overlapping callers

vars == <<file, last, written, pending, calls>>

----------------------------------------------------------------------------
(* Bounds of the model *)

MaxBatch == 2       \* items in the list handed to one call
MaxEntities == 2    \* entity records in a graph that is saved
MaxRelations == 2   \* relation records in a graph that is saved
MaxObs == 2         \* observations of one entity in a graph that is saved
MaxCalls == 3       \* calls started by the overlapping callers

----------------------------------------------------------------------------
(* The strings the calls are made with *)

Names == {"Al", "Bo"}
EntityTypes == {"pal"}
ObsTexts == {"tea", "ale"}
RelTypes == {"knows"}
Queries == {"", "bO", "PA", "TEA"}

\* The characters of each string, for the substring search.
Spell(s) ==
    CASE s = "Al" -> <<"A", "l">>
      [] s = "Bo" -> <<"B", "o">>
      [] s = "pal" -> <<"p", "a", "l">>
      [] s = "tea" -> <<"t", "e", "a">>
      [] s = "ale" -> <<"a", "l", "e">>
      [] s = "bO" -> <<"b", "O">>
      [] s = "PA" -> <<"P", "A">>
      [] s = "TEA" -> <<"T", "E", "A">>
      [] OTHER -> <<>>

LowerChar(c) ==
    CASE c = "A" -> "a"
      [] c = "B" -> "b"
      [] c = "E" -> "e"
      [] c = "O" -> "o"
      [] c = "P" -> "p"
      [] c = "T" -> "t"
      [] OTHER -> c

\* String.prototype.toLowerCase, on the characters
toLowerCase(s) == [i \in 1..Len(Spell(s)) |-> LowerChar(Spell(s)[i])]

\* String.prototype.includes, on the characters: q occurs in w as a substring
includes(w, q) ==
    \E i \in 0..(Len(w) - Len(q)) : SubSeq(w, i + 1, i + Len(q)) = q

----------------------------------------------------------------------------
(* Lists *)

RECURSIVE SeqsUpTo(_, _)
SeqsUpTo(S, n) ==
    IF n = 0 THEN {<<>>}
    ELSE LET shorter == SeqsUpTo(S, n - 1)
         IN  shorter \cup {Append(q, x) : q \in shorter, x \in S}

Map(s, F(_)) == [i \in 1..Len(s) |-> F(s[i])]

\* Array.prototype.filter
Filter(s, P(_)) == SelectSeq(s, P)

\* Array.prototype.includes / some
Has(s, x) == \E i \in 1..Len(s) : s[i] = x

\* Array.prototype.find as an index: the FIRST element whose name is n, 0 if none
FindByName(entities, n) ==
    IF \E i \in 1..Len(entities) : entities[i].name = n
    THEN CHOOSE i \in 1..Len(entities) :
            /\ entities[i].name = n
            /\ \A j \in 1..(i - 1) : entities[j].name # n
    ELSE 0

----------------------------------------------------------------------------
(* The zod schemas *)

EntityKeys == {"name", "entityType", "observations"}
RelationKeys == {"from", "to", "relationType"}

\* EntitySchema.parse(e) succeeds
EntitySchema(e) == EntityKeys \subseteq DOMAIN e

\* RelationSchema.parse(r) succeeds
RelationSchema(r) == RelationKeys \subseteq DOMAIN r

\* KnowledgeGraphSchema.parse(graph) succeeds
KnowledgeGraphSchema(graph) ==
    /\ \A i \in 1..Len(graph.entities) : EntitySchema(graph.entities[i])
    /\ \A i \in 1..Len(graph.relations) : RelationSchema(graph.relations[i])

\* The output of a successful parse: the schema's keys only
StripEntity(e) ==
    [name |-> e.name, entityType |-> e.entityType, observations |-> e.observations]

StripRelation(r) ==
    [from |-> r.from, to |-> r.to, relationType |-> r.relationType]

StripGraph(graph) ==
    [entities |-> Map(graph.entities, StripEntity),
     relations |-> Map(graph.relations, StripRelation)]

EmptyGraph == [entities |-> <<>>, relations |-> <<>>]

----------------------------------------------------------------------------
(* Storage *)

NoFile == [exists |-> FALSE, lines |-> <<>>]

\* JSON.stringify({ type: "entity", ...e }): the keys of e are spread AFTER
\* the tag, so a key "type" of e itself replaces the tag.
EntityLine(e) == e @@ [type |-> "entity"]

\* JSON.stringify({ type: "relation", ...r })
RelationLine(r) == r @@ [type |-> "relation"]

\* item.type === tag, for the object JSON.parse gives for a line
Tagged(item, tag) == "type" \in DOMAIN item /\ item.type = tag

\* loadGraph: [ok, graph]; ok is FALSE when KnowledgeGraphSchema.parse throws
loadGraph(f) ==
    IF ~f.exists
    THEN [ok |-> TRUE, graph |-> EmptyGraph]
    ELSE LET graph == [entities |-> Filter(f.lines, LAMBDA item : Tagged(item, "entity")),
                       relations |-> Filter(f.lines, LAMBDA item : Tagged(item, "relation"))]
         IN  IF KnowledgeGraphSchema(graph)
             THEN [ok |-> TRUE, graph |-> StripGraph(graph)]
             ELSE [ok |-> FALSE, graph |-> EmptyGraph]

\* saveGraph up to its write: [ok, lines]; ok is FALSE when
\* KnowledgeGraphSchema.parse throws, and then nothing is written
saveGraph(graph) ==
    IF ~KnowledgeGraphSchema(graph)
    THEN [ok |-> FALSE, lines |-> <<>>]
    ELSE [ok |-> TRUE,
          lines |-> Map(graph.entities, EntityLine)
                    \o Map(graph.relations, RelationLine)]

\* Variant of writeFile: the lines are appended to what the file holds
writeFileAppending(f, lines) == [exists |-> TRUE, lines |-> f.lines \o lines]

\* fs.writeFile(MEMORY_FILE_PATH, lines.join("\n")) on the file f: the file is
\* created or truncated, and holds the new lines only
writeFile(f, lines) == [exists |-> TRUE, lines |-> lines]

----------------------------------------------------------------------------
(* The handlers.  Each gives [status, write, graph, ret]: status is "ok" or  *)
(* the error thrown; write says whether the handler reached fs.writeFile;    *)
(* graph is the in-memory graph when the handler stopped; ret is the value   *)
(* returned.                                                                 *)

Thrown(error, graph) ==
    [status |-> error, write |-> FALSE, graph |-> graph, ret |-> <<>>]

Returned(graph, ret) ==
    [status |-> "ok", write |-> FALSE, graph |-> graph, ret |-> ret]

\* await this.saveGraph(graph); return ret
Saved(graph, ret) ==
    IF saveGraph(graph).ok
    THEN [status |-> "ok", write |-> TRUE, graph |-> graph, ret |-> ret]
    ELSE Thrown("ValidationError", graph)

\* Variant of readGraph: the loaded graph is saved back before it is returned
readGraphSaving(f) ==
    LET l == loadGraph(f)
    IN  IF ~l.ok THEN Thrown("ValidationError", EmptyGraph)
        ELSE Saved(l.graph, l.graph)

readGraph(f) ==
    LET l == loadGraph(f)
    IN  IF ~l.ok THEN Thrown("ValidationError", EmptyGraph)
        ELSE Returned(l.graph, l.graph)

\* Variant of BetweenFiltered: one endpoint among the entities is enough
BetweenFilteredEither(graph, filteredEntities) ==
    LET filteredEntityNames == {filteredEntities[i].name : i \in 1..Len(filteredEntities)}
    IN  Filter(graph.relations,
               LAMBDA r : r.from \in filteredEntityNames \/ r.to \in filteredEntityNames)

\* The relations between the entities of filteredEntities
BetweenFiltered(graph, filteredEntities) ==
    LET filteredEntityNames == {filteredEntities[i].name : i \in 1..Len(filteredEntities)}
    IN  Filter(graph.relations,
               LAMBDA r : r.from \in filteredEntityNames /\ r.to \in filteredEntityNames)

searchNodes(f, query) ==
    LET l == loadGraph(f)
        q == toLowerCase(query)
        filteredEntities ==
            Filter(l.graph.entities,
                   LAMBDA e : \/ includes(toLowerCase(e.name), q)
                              \/ includes(toLowerCase(e.entityType), q)
                              \/ \E i \in 1..Len(e.observations) :
                                    includes(toLowerCase(e.observations[i]), q))
    IN  IF ~l.ok THEN Thrown("ValidationError", EmptyGraph)
        ELSE Returned(l.graph,
                      [entities |-> filteredEntities,
                       relations |-> BetweenFiltered(l.graph, filteredEntities)])

\* Variant of openNodes: an entity is kept when one of names occurs in its name
openNodesIncluding(f, names) ==
    LET l == loadGraph(f)
        filteredEntities ==
            Filter(l.graph.entities,
                   LAMBDA e : \E i \in 1..Len(names) :
                                  includes(Spell(e.name), Spell(names[i])))
    IN  IF ~l.ok THEN Thrown("ValidationError", EmptyGraph)
        ELSE Returned(l.graph,
                      [entities |-> filteredEntities,
                       relations |-> BetweenFiltered(l.graph, filteredEntities)])

openNodes(f, names) ==
    LET l == loadGraph(f)
        filteredEntities == Filter(l.graph.entities, LAMBDA e : Has(names, e.name))
    IN  IF ~l.ok THEN Thrown("ValidationError", EmptyGraph)
        ELSE Returned(l.graph,
                      [entities |-> filteredEntities,
                       relations |-> BetweenFiltered(l.graph, filteredEntities)])

\* Variant of createEntities: the entities that fail the schema are left out
\* of the batch instead of failing the call
createEntitiesLenient(f, entities) ==
    LET l == loadGraph(f)
        newEntities ==
            Filter(entities,
                   LAMBDA e : /\ EntitySchema(e)
                              /\ ~\E i \in 1..Len(l.graph.entities) :
                                     l.graph.entities[i].name = e.name)
    IN  IF ~l.ok THEN Thrown("ValidationError", EmptyGraph)
        ELSE Saved([l.graph EXCEPT !.entities = @ \o newEntities], newEntities)

\* Variant of createEntities: an input entity whose name is in the graph
\* replaces the stored entity of that name
createEntitiesUpdating(f, entities) ==
    IF \E i \in 1..Len(entities) : ~EntitySchema(entities[i])
    THEN Thrown("ValidationError", EmptyGraph)
    ELSE LET l == loadGraph(f)
             newEntities ==
                 Filter(entities,
                        LAMBDA e : ~\E i \in 1..Len(l.graph.entities) :
                                       l.graph.entities[i].name = e.name)
             updated ==
                 Map(l.graph.entities,
                     LAMBDA x : IF FindByName(entities, x.name) = 0 THEN x
                                ELSE entities[FindByName(entities, x.name)])
         IN  IF ~l.ok THEN Thrown("ValidationError", EmptyGraph)
             ELSE Saved([l.graph EXCEPT !.entities = updated \o newEntities], newEntities)

createEntities(f, entities) ==
    IF \E i \in 1..Len(entities) : ~EntitySchema(entities[i])
    THEN Thrown("ValidationError", EmptyGraph)
    ELSE LET l == loadGraph(f)
             newEntities ==
                 Filter(entities,
                        LAMBDA e : ~\E i \in 1..Len(l.graph.entities) :
                                       l.graph.entities[i].name = e.name)
         IN  IF ~l.ok THEN Thrown("ValidationError", EmptyGraph)
             ELSE Saved([l.graph EXCEPT !.entities = @ \o newEntities], newEntities)

SameTriple(a, b) ==
    a.from = b.from /\ a.to = b.to /\ a.relationType = b.relationType

\* s without the repeats of an element that occurs earlier in s
RECURSIVE FirstOccurrences(_)
FirstOccurrences(s) ==
    IF s = <<>> THEN <<>>
    ELSE LET rest == FirstOccurrences(SubSeq(s, 1, Len(s) - 1))
         IN  IF Has(rest, s[Len(s)]) THEN rest ELSE Append(rest, s[Len(s)])

\* createRelations that also drops a triple repeated inside the input
createRelationsOnce(f, relations) ==
    IF \E i \in 1..Len(relations) : ~RelationSchema(relations[i])
    THEN Thrown("ValidationError", EmptyGraph)
    ELSE LET l == loadGraph(f)
             newRelations ==
                 FirstOccurrences(
                     Filter(relations,
                            LAMBDA r : ~\E i \in 1..Len(l.graph.relations) :
                                           SameTriple(l.graph.relations[i], r)))
         IN  IF ~l.ok THEN Thrown("ValidationError", EmptyGraph)
             ELSE Saved([l.graph EXCEPT !.relations = @ \o newRelations], newRelations)

createRelations(f, relations) ==
    IF \E i \in 1..Len(relations) : ~RelationSchema(relations[i])
    THEN Thrown("ValidationError", EmptyGraph)
    ELSE LET l == loadGraph(f)
             newRelations ==
                 Filter(relations,
                        LAMBDA r : ~\E i \in 1..Len(l.graph.relations) :
                                       SameTriple(l.graph.relations[i], r))
         IN  IF ~l.ok THEN Thrown("ValidationError", EmptyGraph)
             ELSE Saved([l.graph EXCEPT !.relations = @ \o newRelations], newRelations)

\* Variant of addObservationsMap: a text repeated inside one update's contents
\* is appended once
RECURSIVE addObservationsMapDistinct(_, _, _)
addObservationsMapDistinct(entities, observations, results) ==
    IF observations = <<>>
    THEN [found |-> TRUE, entities |-> entities, results |-> results]
    ELSE LET o == Head(observations)
             i == FindByName(entities, o.entityName)
             newObservations ==
                 FirstOccurrences(
                     Filter(o.contents,
                            LAMBDA content : ~Has(entities[i].observations, content)))
         IN  IF i = 0
             THEN [found |-> FALSE, entities |-> entities, results |-> results]
             ELSE addObservationsMapDistinct(
                      [entities EXCEPT ![i].observations = @ \o newObservations],
                      Tail(observations),
                      Append(results, [entityName |-> o.entityName,
                                       addedObservations |-> newObservations]))

\* observations.map(...) of addObservations, update by update on the entities
\* in memory: [found, entities, results]
RECURSIVE addObservationsMap(_, _, _)
addObservationsMap(entities, observations, results) ==
    IF observations = <<>>
    THEN [found |-> TRUE, entities |-> entities, results |-> results]
    ELSE LET o == Head(observations)
             i == FindByName(entities, o.entityName)
             newObservations ==
                 Filter(o.contents, LAMBDA content : ~Has(entities[i].observations, content))
         IN  IF i = 0
             THEN [found |-> FALSE, entities |-> entities, results |-> results]
             ELSE addObservationsMap(
                      [entities EXCEPT ![i].observations = @ \o newObservations],
                      Tail(observations),
                      Append(results, [entityName |-> o.entityName,
                                       addedObservations |-> newObservations]))

\* Variant of addObservations: the graph is saved before the not-found error
\* is thrown
addObservationsSavingFirst(f, observations) ==
    LET l == loadGraph(f)
        m == addObservationsMap(l.graph.entities, observations, <<>>)
        graph == [l.graph EXCEPT !.entities = m.entities]
    IN  IF ~l.ok THEN Thrown("ValidationError", EmptyGraph)
        ELSE IF ~m.found THEN [Thrown("NotFound", graph) EXCEPT !.write = TRUE]
        ELSE Saved(graph, m.results)

addObservations(f, observations) ==
    LET l == loadGraph(f)
        m == addObservationsMap(l.graph.entities, observations, <<>>)
        graph == [l.graph EXCEPT !.entities = m.entities]
    IN  IF ~l.ok THEN Thrown("ValidationError", EmptyGraph)
        ELSE IF ~m.found THEN Thrown("NotFound", graph)
        ELSE Saved(graph, m.results)

\* Variant of deleteEntities: the relations of the deleted entities are kept
deleteEntitiesKeepingRelations(f, entityNames) ==
    LET l == loadGraph(f)
        graph ==
            [l.graph EXCEPT
                !.entities = Filter(@, LAMBDA e : ~Has(entityNames, e.name))]
    IN  IF ~l.ok THEN Thrown("ValidationError", EmptyGraph)
        ELSE Saved(graph, <<>>)

\* Variant of deleteEntities: a relation is removed only when its from is deleted
deleteEntitiesFromOnly(f, entityNames) ==
    LET l == loadGraph(f)
        graph ==
            [entities |-> Filter(l.graph.entities, LAMBDA e : ~Has(entityNames, e.name)),
             relations |-> Filter(l.graph.relations,
                                  LAMBDA r : ~Has(entityNames, r.from))]
    IN  IF ~l.ok THEN Thrown("ValidationError", EmptyGraph)
        ELSE Saved(graph, <<>>)

deleteEntities(f, entityNames) ==
    LET l == loadGraph(f)
        graph ==
            [entities |-> Filter(l.graph.entities, LAMBDA e : ~Has(entityNames, e.name)),
             relations |-> Filter(l.graph.relations,
                                  LAMBDA r : ~Has(entityNames, r.from)
                                             /\ ~Has(entityNames, r.to))]
    IN  IF ~l.ok THEN Thrown("ValidationError", EmptyGraph)
        ELSE Saved(graph, <<>>)

\* s without the first occurrence of each text of listed
RECURSIVE WithoutFirst(_, _)
WithoutFirst(s, listed) ==
    IF s = <<>> THEN <<>>
    ELSE LET init == SubSeq(s, 1, Len(s) - 1)
         IN  IF Has(listed, s[Len(s)]) /\ ~Has(init, s[Len(s)])
             THEN WithoutFirst(init, listed)
             ELSE Append(WithoutFirst(init, listed), s[Len(s)])

\* Variant of deleteObservationsEach: only the first occurrence of a listed
\* text is removed
RECURSIVE deleteObservationsEachFirst(_, _)
deleteObservationsEachFirst(entities, deletions) ==
    IF deletions = <<>>
    THEN entities
    ELSE LET d == Head(deletions)
             i == FindByName(entities, d.entityName)
         IN  deleteObservationsEachFirst(
                 IF i = 0 THEN entities
                 ELSE [entities EXCEPT ![i].observations = WithoutFirst(@, d.observations)],
                 Tail(deletions))

\* deletions.forEach(...) of deleteObservations on the entities in memory
RECURSIVE deleteObservationsEach(_, _)
deleteObservationsEach(entities, deletions) ==
    IF deletions = <<>>
    THEN entities
    ELSE LET d == Head(deletions)
             i == FindByName(entities, d.entityName)
         IN  deleteObservationsEach(
                 IF i = 0 THEN entities
                 ELSE [entities EXCEPT ![i].observations =
                          Filter(@, LAMBDA o : ~Has(d.observations, o))],
                 Tail(deletions))

deleteObservations(f, deletions) ==
    LET l == loadGraph(f)
    IN  IF ~l.ok THEN Thrown("ValidationError", EmptyGraph)
        ELSE Saved([l.graph EXCEPT !.entities = deleteObservationsEach(@, deletions)], <<>>)

deleteRelations(f, relations) ==
    IF \E i \in 1..Len(relations) : ~RelationSchema(relations[i])
    THEN Thrown("ValidationError", EmptyGraph)
    ELSE LET l == loadGraph(f)
         IN  IF ~l.ok THEN Thrown("ValidationError", EmptyGraph)
             ELSE Saved([l.graph EXCEPT !.relations =
                            Filter(@, LAMBDA r : ~\E i \in 1..Len(relations) :
                                                     SameTriple(r, relations[i]))],
                        <<>>)

----------------------------------------------------------------------------
(* The inputs of the calls *)

\* Entities of the declared type Entity
PlainEntities ==
    [name : Names, entityType : EntityTypes, observations : {<<>>, <<"ale">>}]

\* Objects that pass EntitySchema and carry a key "type" of their own
TaggedEntities ==
    {[type |-> "relation", name |-> "Al", entityType |-> "pal", observations |-> <<>>],
     [type |-> "memo", name |-> "Bo", entityType |-> "pal", observations |-> <<>>]}

\* An object that fails EntitySchema: observations is missing
MalformedEntities == {[name |-> "Bo", entityType |-> "pal"]}

\* Relations of the declared type Relation
PlainRelations ==
    {r \in [from : Names, to : Names, relationType : RelTypes] : r.from # r.to}

\* An object that fails RelationSchema: relationType is missing
MalformedRelations == {[from |-> "Al", to |-> "Bo"]}

ObservationInputs ==
    [entityName : Names, contents : {<<"tea", "tea">>, <<"ale", "tea">>}]

\* "tea" is a text addObservations appends, "ale" one an entity is created with
DeletionInputs ==
    [entityName : Names, observations : {<<"tea">>}]
        \cup {[entityName |-> "Al", observations |-> <<"ale">>]}

\* The names openNodes is asked for: the empty string is a substring of every
\* name and the name of no entity
OpenNames == Names \cup {""}

Batches(S) == SeqsUpTo(S, MaxBatch)

NameBatches == Batches(Names)
OpenBatches == Batches(OpenNames)

\* The batches of valid items, and the batches a malformed item is part of
MixedBatches(Valid, Malformed) ==
    Batches(Valid)
        \cup {<<m>> : m \in Malformed}
        \cup {<<e, m>> : e \in Valid, m \in Malformed}

EntityBatches ==
    MixedBatches(PlainEntities, MalformedEntities) \cup {<<e>> : e \in TaggedEntities}
RelationBatches == MixedBatches(PlainRelations, MalformedRelations)
ObservationBatches == Batches(ObservationInputs)
DeletionBatches == Batches(DeletionInputs)

----------------------------------------------------------------------------
(* One caller at a time: a call runs from its load to its save before the   *)
(* next call starts.                                                         *)

WithinBounds(graph) ==
    /\ Len(graph.entities) <= MaxEntities
    /\ Len(graph.relations) <= MaxRelations
    /\ \A i \in 1..Len(graph.entities) :
          "observations" \in DOMAIN graph.entities[i]
              => Len(graph.entities[i].observations) <= MaxObs

\* The record of a call by caller p that found the file f and ended as out
CallRecord(p, op, args, f, out) ==
    [by |-> p, op |-> op, args |-> args, before |-> loadGraph(f),
     status |-> out.status, write |-> out.write, ret |-> out.ret,
     graph |-> out.graph, stale |-> FALSE]

Call(op, args, result) ==
    LET out == result
    IN
    /\ out.write => WithinBounds(out.graph)
    /\ file' = IF out.write THEN writeFile(file, saveGraph(out.graph).lines) ELSE file
    /\ written' = IF out.write THEN out.graph ELSE written
    /\ last' = CallRecord(1, op, args, file, out)
    /\ UNCHANGED <<pending, calls>>

ReadGraph == Call("readGraph", <<>>, readGraph(file))

SearchNodes == \E query \in Queries : Call("searchNodes", query, searchNodes(file, query))

OpenNodes == \E names \in OpenBatches : Call("openNodes", names, openNodes(file, names))

CreateEntities ==
    \E entities \in EntityBatches :
        Call("createEntities", entities, createEntities(file, entities))

CreateRelations ==
    \E relations \in RelationBatches :
        Call("createRelations", relations, createRelations(file, relations))

AddObservations ==
    \E observations \in ObservationBatches :
        Call("addObservations", observations, addObservations(file, observations))

DeleteEntities ==
    \E entityNames \in NameBatches :
        Call("deleteEntities", entityNames, deleteEntities(file, entityNames))

DeleteObservations ==
    \E deletions \in DeletionBatches :
        Call("deleteObservations", deletions, deleteObservations(file, deletions))

DeleteRelations ==
    \E relations \in RelationBatches :
        Call("deleteRelations", relations, deleteRelations(file, relations))

Callers == {1, 2}

NoCall ==
    [by |-> 1, op |-> "none", args |-> <<>>, before |-> loadGraph(NoFile),
     status |-> "ok", write |-> FALSE, ret |-> <<>>, graph |-> EmptyGraph,
     stale |-> FALSE]

Idle == [pc |-> "idle", call |-> NoCall]

Init ==
    /\ file = NoFile
    /\ last = NoCall
    /\ written = EmptyGraph
    /\ pending = [p \in Callers |-> Idle]
    /\ calls = 0

Next ==
    \/ ReadGraph
    \/ SearchNodes
    \/ OpenNodes
    \/ CreateEntities
    \/ CreateRelations
    \/ AddObservations
    \/ DeleteEntities
    \/ DeleteObservations
    \/ DeleteRelations

Spec == Init /\ [][Next]_vars

----------------------------------------------------------------------------
(* Overlapping callers.  A call suspends at its two awaits: fs.readFile and  *)
(* fs.writeFile.  What a handler does between them is synchronous, so a call *)
(* is two steps: Begin, from the call to the moment the write is issued, on  *)
(* the file as it is read; and Commit, the write itself.  A call that throws *)
(* or that only reads completes in its Begin.                                *)

Begin(p, op, args, result) ==
    LET out == result
        call == CallRecord(p, op, args, file, out)
    IN
    /\ pending[p].pc = "idle"
    /\ calls < MaxCalls
    /\ calls' = calls + 1
    /\ out.write => WithinBounds(out.graph)
    /\ pending' = [pending EXCEPT ![p] =
                       [pc |-> IF out.write THEN "saving" ELSE "idle", call |-> call]]
    /\ last' = IF out.write THEN last ELSE call
    /\ UNCHANGED <<file, written>>

\* The write of caller p completes; the snapshot of every caller that has
\* loaded and not yet saved is stale from now on.
Commit(p) ==
    /\ pending[p].pc = "saving"
    /\ file' = writeFile(file, saveGraph(pending[p].call.graph).lines)
    /\ written' = pending[p].call.graph
    /\ last' = pending[p].call
    /\ pending' = [q \in Callers |->
                       IF q = p THEN [pending[p] EXCEPT !.pc = "idle"]
                       ELSE IF pending[q].pc = "saving"
                            THEN [pending[q] EXCEPT !.call.stale = TRUE]
                            ELSE pending[q]]
    /\ UNCHANGED calls

SingleEntities == {<<e>> : e \in {x \in PlainEntities : x.observations = <<>>}}
SingleRelations == {<<r>> : r \in PlainRelations}
SingleObservations == {<<o>> : o \in {x \in ObservationInputs : x.contents = <<"ale", "tea">>}}
SingleDeletions == {<<d>> : d \in DeletionInputs}
SingleNames == {<<n>> : n \in Names}

BeginReadGraph(p) == Begin(p, "readGraph", <<>>, readGraph(file))

BeginCreateEntities(p) ==
    \E entities \in SingleEntities :
        Begin(p, "createEntities", entities, createEntities(file, entities))

BeginCreateRelations(p) ==
    \E relations \in SingleRelations :
        Begin(p, "createRelations", relations, createRelations(file, relations))

BeginAddObservations(p) ==
    \E observations \in SingleObservations :
        Begin(p, "addObservations", observations, addObservations(file, observations))

BeginDeleteEntities(p) ==
    \E entityNames \in SingleNames :
        Begin(p, "deleteEntities", entityNames, deleteEntities(file, entityNames))

BeginDeleteObservations(p) ==
    \E deletions \in SingleDeletions :
        Begin(p, "deleteObservations", deletions, deleteObservations(file, deletions))

BeginDeleteRelations(p) ==
    \E relations \in SingleRelations :
        Begin(p, "deleteRelations", relations, deleteRelations(file, relations))

NextConc ==
    \E p \in Callers :
        \/ BeginReadGraph(p)
        \/ BeginCreateEntities(p)
        \/ BeginCreateRelations(p)
        \/ BeginAddObservations(p)
        \/ BeginDeleteEntities(p)
        \/ BeginDeleteObservations(p)
        \/ BeginDeleteRelations(p)
        \/ Commit(p)

SpecConc == Init /\ [][NextConc]_vars

----------------------------------------------------------------------------
(* The persisted graph: what loadGraph makes of the file *)

Persisted == loadGraph(file).graph

EntityNamesOf(graph) == {graph.entities[i].name : i \in 1..Len(graph.entities)}

\* The number of entities of graph named n
Named(graph, n) ==
    Cardinality({i \in 1..Len(graph.entities) : graph.entities[i].name = n})

\* An object of the declared type: the schema's keys and no other
IsEntity(e) == DOMAIN e = EntityKeys

----------------------------------------------------------------------------
\* C1: no two entities of the persisted graph have the same name.
C1_UniqueEntityNames ==
    loadGraph(file).ok =>
        \A i, j \in 1..Len(Persisted.entities) :
            i # j => Persisted.entities[i].name # Persisted.entities[j].name

\* C2: no two relations of the persisted graph have the same
\* (from, to, relationType) triple.
C2_UniqueRelationTriples ==
    loadGraph(file).ok =>
        \A i, j \in 1..Len(Persisted.relations) :
            i # j => ~SameTriple(Persisted.relations[i], Persisted.relations[j])

\* C3: once createEntities([e]) has succeeded for an entity e of the declared
\* type, calling createEntities([e]) again returns no newly added entity and
\* leaves exactly one entity named e.name in the persisted graph.
C3_CreateEntitiesIdempotent ==
    (/\ last.op = "createEntities"
     /\ last.status = "ok"
     /\ Len(last.args) = 1
     /\ IsEntity(last.args[1]))
        => LET again == createEntities(file, last.args)
           IN  /\ again.status = "ok"
               /\ again.ret = <<>>
               /\ Named(loadGraph(writeFile(file, saveGraph(again.graph).lines)).graph,
                        last.args[1].name) = 1

\* C4: once deleteEntities(names) has completed on a loadable store, the
\* persisted graph holds no entity named in names and no relation whose from
\* or to is in names; the call succeeds whether or not the names match.
C4_CascadeOnDelete ==
    (last.op = "deleteEntities" /\ last.before.ok)
        => /\ last.status = "ok"
           /\ loadGraph(file).ok
           /\ \A i \in 1..Len(Persisted.entities) :
                 ~Has(last.args, Persisted.entities[i].name)
           /\ \A i \in 1..Len(Persisted.relations) :
                 /\ ~Has(last.args, Persisted.relations[i].from)
                 /\ ~Has(last.args, Persisted.relations[i].to)

\* A deleteEntities call that removed an entity and a relation touching it,
\* and that also named an entity the graph did not hold.
C4_Witness ==
    /\ last.op = "deleteEntities"
    /\ last.status = "ok"
    /\ Len(Persisted.entities) < Len(last.before.graph.entities)
    /\ Len(Persisted.relations) < Len(last.before.graph.relations)
    /\ \E i \in 1..Len(last.args) : last.args[i] \notin EntityNamesOf(last.before.graph)

\* C5: every relation in the result of searchNodes and of openNodes has its
\* from and its to among the names of the entities of that same result.
C5_ResultContainment ==
    (last.op \in {"searchNodes", "openNodes"} /\ last.status = "ok")
        => \A i \in 1..Len(last.ret.relations) :
              /\ last.ret.relations[i].from \in EntityNamesOf(last.ret)
              /\ last.ret.relations[i].to \in EntityNamesOf(last.ret)

\* A search that returned an entity and left out a relation of the graph
\* whose other endpoint names no entity of the graph.
C5_Witness ==
    /\ last.op = "searchNodes"
    /\ last.status = "ok"
    /\ last.ret.entities # <<>>
    /\ \E i \in 1..Len(last.before.graph.relations) :
          LET r == last.before.graph.relations[i]
          IN  /\ r.from \in EntityNamesOf(last.ret)
              /\ r.to \notin EntityNamesOf(last.before.graph)
              /\ ~Has(last.ret.relations, r)

\* C6: when an update of the batch names an entity absent from the graph,
\* addObservations fails with the not-found error, writes nothing, and the
\* persisted graph is the graph of before the call.
C6_AddObservationsAllOrNothing ==
    (/\ last.op = "addObservations"
     /\ last.before.ok
     /\ \E i \in 1..Len(last.args) :
           last.args[i].entityName \notin EntityNamesOf(last.before.graph))
        => /\ last.status = "NotFound"
           /\ ~last.write
           /\ loadGraph(file) = last.before
           /\ readGraph(file).ret = last.before.graph

\* A failed addObservations whose earlier updates had already changed the
\* graph in memory.
C6_Witness ==
    /\ last.op = "addObservations"
    /\ last.status = "NotFound"
    /\ last.graph # last.before.graph

\* An item of the batch fails its shape check
HasMalformed(op, args) ==
    \E i \in 1..Len(args) :
        IF op = "createEntities" THEN ~EntitySchema(args[i]) ELSE ~RelationSchema(args[i])

\* C7: createEntities, createRelations and deleteRelations called with a
\* batch in which an item fails the shape check fail with a validation error
\* and leave the persisted state as it was.
C7_ValidationAbortsBeforePersist ==
    [][(/\ last'.op \in {"createEntities", "createRelations", "deleteRelations"}
        /\ HasMalformed(last'.op, last'.args))
           => (last'.status = "ValidationError" /\ file' = file)]_vars

\* A createEntities call that failed validation although its batch also held
\* a well-shaped entity whose name the graph does not hold.
C7_Witness ==
    /\ last.op = "createEntities"
    /\ last.status = "ValidationError"
    /\ last.before.ok
    /\ \E i \in 1..Len(last.args) :
          /\ EntitySchema(last.args[i])
          /\ last.args[i].name \notin EntityNamesOf(Persisted)

\* C8: after saveGraph(g) for a graph g that satisfies the schema, loadGraph
\* succeeds and gives the entities (name, entityType, observations) and the
\* relations (from, to, relationType) of g.
C8_SaveLoadRoundTrip ==
    last.write
        => /\ loadGraph(file).ok
           /\ loadGraph(file).graph = StripGraph(last.graph)

\* C9: the store is loadable after every call, failed or not, and holds the
\* graph written by the last successful mutating call.
C9_StoreStaysLoadable ==
    /\ loadGraph(file).ok
    /\ loadGraph(file).graph = StripGraph(written)

\* C10: the save of a createEntities call leaves in the file the graph that
\* call loaded plus the entities it added, and nothing else: whatever another
\* caller saved between this call's load and this call's save is overwritten.
C10_LaterSaveOverwrites ==
    (last.write /\ last.op = "createEntities")
        => /\ Persisted.entities = last.before.graph.entities \o Map(last.ret, StripEntity)
           /\ Persisted.relations = last.before.graph.relations

\* Two overlapping createEntities calls have both returned their new entity,
\* and the entity of the one that saved first is not in the persisted graph.
C10_Witness ==
    /\ last.write
    /\ last.op = "createEntities"
    /\ last.stale
    /\ last.ret # <<>>
    /\ \E p \in Callers \ {last.by} :
          /\ pending[p].pc = "idle"
          /\ pending[p].call.op = "createEntities"
          /\ pending[p].call.status = "ok"
          /\ pending[p].call.ret # <<>>
          /\ pending[p].call.ret[1].name \notin EntityNamesOf(Persisted)
          /\ pending[p].call.ret[1].name # last.ret[1].name

\* C11: when calls do not overlap, every operation loads the graph written by
\* the most recent successful mutating operation (the empty graph before the
\* first one), so each call works on the graph an in-memory application of the
\* same calls would hold.
C11_LoadsLastWritten ==
    [][/\ last'.before.ok
       /\ last'.before.graph = StripGraph(written)]_vars

\* The number of places of s that hold x
Occurrences(s, x) == Cardinality({i \in 1..Len(s) : s[i] = x})

C13_AddedAgainstStored ==
    (last.op = "addObservations" /\ last.status = "ok")
        => /\ Len(last.ret) = Len(last.args)
           /\ \A k \in 1..Len(last.args) :
                 LET o == last.args[k]
                     i == FindByName(last.before.graph.entities, o.entityName)
                     stored == last.before.graph.entities[i].observations
                 IN  last.ret[k] =
                         [entityName |-> o.entityName,
                          addedObservations |->
                              Filter(o.contents, LAMBDA content : ~Has(stored, content))]

\* The texts the first k - 1 results report as added to the entity named n
RECURSIVE AddedBefore(_, _, _)
AddedBefore(results, n, k) ==
    IF k <= 1 THEN <<>>
    ELSE AddedBefore(results, n, k - 1)
             \o (IF results[k - 1].entityName = n
                 THEN results[k - 1].addedObservations ELSE <<>>)

\* C13, amended: a successful addObservations returns, for each update, the
\* texts of its contents that the named entity does not hold when the update
\* is processed, that is neither before the call nor from an earlier update
\* of the same batch, a text repeated inside the contents being kept as often
\* as it is repeated; the first entity of each name ends with its observations
\* followed by the texts returned for it, and nothing else changes.
C13_AddedAgainstCurrent ==
    (last.op = "addObservations" /\ last.status = "ok")
        => LET old == last.before.graph
           IN  /\ Len(last.ret) = Len(last.args)
               /\ \A k \in 1..Len(last.args) :
                     LET o == last.args[k]
                         i == FindByName(old.entities, o.entityName)
                         current == old.entities[i].observations
                                        \o AddedBefore(last.ret, o.entityName, k)
                     IN  last.ret[k] =
                             [entityName |-> o.entityName,
                              addedObservations |->
                                  Filter(o.contents,
                                         LAMBDA content : ~Has(current, content))]
               /\ Len(Persisted.entities) = Len(old.entities)
               /\ \A i \in 1..Len(old.entities) :
                     LET e == old.entities[i]
                     IN  Persisted.entities[i] =
                             IF FindByName(old.entities, e.name) = i
                             THEN [e EXCEPT !.observations =
                                      @ \o AddedBefore(last.ret, e.name, Len(last.ret) + 1)]
                             ELSE e
               /\ Persisted.relations = old.relations

\* Two updates of one batch named the same entity: the first added a text
\* that the second lists too, and the second added nothing
C13_Witness ==
    /\ last.op = "addObservations"
    /\ last.status = "ok"
    /\ Len(last.args) = 2
    /\ last.args[1].entityName = last.args[2].entityName
    /\ last.ret[2].addedObservations = <<>>
    /\ \E j \in 1..Len(last.ret[1].addedObservations) :
          Has(last.args[2].contents, last.ret[1].addedObservations[j])

\* The texts the deletions of the batch list for the entity name n
ListedFor(deletions, n) ==
    UNION {{deletions[k].observations[j] : j \in 1..Len(deletions[k].observations)} :
              k \in {k \in 1..Len(deletions) : deletions[k].entityName = n}}

\* C14: deleteObservations on a loadable store succeeds whether or not the
\* names of its deletions match an entity; every entity of the persisted graph
\* is the entity it was without the texts listed for its name, and the
\* relations are unchanged.
C14_DeleteObservationsFrame ==
    (last.op = "deleteObservations" /\ last.before.ok)
        => LET old == last.before.graph
           IN  /\ last.status = "ok"
               /\ Len(Persisted.entities) = Len(old.entities)
               /\ \A i \in 1..Len(old.entities) :
                     LET e == old.entities[i]
                     IN  Persisted.entities[i] =
                             [e EXCEPT !.observations =
                                 Filter(@, LAMBDA content :
                                               content \notin ListedFor(last.args, e.name))]
               /\ Persisted.relations = old.relations

\* The input entity e has the name of an entity of graph that differs from it
\* in its entityType or its observations
Clashes(graph, e) ==
    \E i \in 1..Len(graph.entities) :
        /\ graph.entities[i].name = e.name
        /\ \/ graph.entities[i].entityType # e.entityType
           \/ graph.entities[i].observations # e.observations

C16_OpenNodesExactMatch ==
    (last.op = "openNodes" /\ last.before.ok)
        => LET old == last.before.graph
               asked == {last.args[k] : k \in 1..Len(last.args)}
           IN  /\ last.status = "ok"
               /\ \A j \in 1..Len(last.ret.entities) :
                     /\ Has(old.entities, last.ret.entities[j])
                     /\ last.ret.entities[j].name \in asked
               /\ \A i \in 1..Len(old.entities) :
                     old.entities[i].name \in asked
                         => Occurrences(last.ret.entities, old.entities[i])
                                = Occurrences(old.entities, old.entities[i])

\* The graph holds one entity and a relation from it; openNodes was asked for
\* its name and for a name of no entity, and returned the entity and no relation
C16_Witness ==
    /\ last.op = "openNodes"
    /\ last.status = "ok"
    /\ Len(last.before.graph.entities) = 1
    /\ last.before.graph.relations # <<>>
    /\ Len(last.args) = 2
    /\ \E k \in 1..2 : last.args[k] \notin EntityNamesOf(last.before.graph)
    /\ last.ret.entities = last.before.graph.entities
    /\ last.ret.relations = <<>>

\* The record is entity-tagged or relation-tagged and satisfies its shape
WellShapedRecord(item) ==
    \/ Tagged(item, "entity") /\ EntitySchema(item)
    \/ Tagged(item, "relation") /\ RelationSchema(item)

\* C17: when the store holds a record that is neither an entity-tagged nor a
\* relation-tagged record satisfying its shape, loadGraph fails.
C17_LoadIsStrict ==
    (file.exists /\ \E i \in 1..Len(file.lines) : ~WellShapedRecord(file.lines[i]))
        => ~loadGraph(file).ok

ReadOperations == {"readGraph", "searchNodes", "openNodes"}

\* C18: a call of readGraph, searchNodes or openNodes does not reach the write
\* and leaves the file as it was, whatever its input and whether it fails or
\* not; a successful readGraph returns the graph loadGraph gives for the file.
C18_ReadsLeaveStore ==
    [][last'.op \in ReadOperations
          => /\ file' = file
             /\ ~last'.write
             /\ (last'.op = "readGraph" /\ last'.status = "ok")
                    => last'.ret = loadGraph(file).graph]_vars

\* readGraph has returned a graph with entities and relations
C18_Witness ==
    /\ last.op = "readGraph"
    /\ last.status = "ok"
    /\ file.exists
    /\ last.ret.entities # <<>>
    /\ last.ret.relations # <<>>
    /\ last.ret = Persisted

\* The relations of graph whose from or to is the name of no entity of graph
Dangling(graph) ==
    {i \in 1..Len(graph.relations) :
        \/ graph.relations[i].from \notin EntityNamesOf(graph)
        \/ graph.relations[i].to \notin EntityNamesOf(graph)}

OtherMutations ==
    {"createEntities", "addObservations", "deleteEntities", "deleteObservations",
     "deleteRelations"}

DeleteOperations == {"deleteEntities", "deleteObservations", "deleteRelations"}

\* The last call made again, with the same input, on the store as it is now
SameDeleteAgain ==
    CASE last.op = "deleteEntities" -> deleteEntities(file, last.args)
      [] last.op = "deleteObservations" -> deleteObservations(file, last.args)
      [] last.op = "deleteRelations" -> deleteRelations(file, last.args)

\* C20: after a successful deleteEntities, deleteObservations or
\* deleteRelations, the same call with the same input succeeds and writes the
\* file that the first call left.
C20_DeletesIdempotent ==
    (last.op \in DeleteOperations /\ last.status = "ok")
        => /\ SameDeleteAgain.status = "ok"
           /\ SameDeleteAgain.write
           /\ writeFile(file, saveGraph(SameDeleteAgain.graph).lines) = file

\* deleteObservations has removed a text that an entity held twice
C20_Witness ==
    /\ last.op = "deleteObservations"
    /\ last.status = "ok"
    /\ \E i \in 1..Len(Persisted.entities) :
          /\ Len(last.before.graph.entities[i].observations) = 2
          /\ Persisted.entities[i].observations = <<>>

====
